---- MODULE Spec2Model ----
(***************************************************************************)
(* ScriNS: the pressure-correction step (calc_p) and the time loops of the *)
(* collocated drivers (thermally driven cavity, obstacles, thermal         *)
(* plumes).                                                                *)
(*                                                                         *)
(* Spec     the time loop of a driver, MaxTs time steps, with small input  *)
(*          sets for what the transport solvers and the linear solver      *)
(*          return.                                                        *)
(* SpecStep one pressure-correction cycle (calc_p, corr_uvw twice, the     *)
(*          diagnostic vol_balance) from any face velocity field and any   *)
(*          obstacle mask of the bounded input sets.                       *)
(*                                                                         *)
(* Arithmetic.  Fields are real-valued in the program.  The model computes *)
(* exactly, in integers: every stored field value is Scale (= number of    *)
(* cells) times the real value, so that p.val - p.val.mean() is an exact   *)
(* integer operation.  Cell-centred velocities are stored 2*Scale times    *)
(* the real value (their correction averages two face gradients).  The     *)
(* grid is uniform with unit spacings and dt/rho = 1, so every coefficient *)
(* of the pressure matrix is 1.  Floating-point rounding is not modelled;  *)
(* the solver has converged when its iterate solves the system exactly.    *)
(*                                                                         *)
(* calc_t, calc_uvw, create_matrix, vol_balance, obst_zero_val, adj_n_bnds,*)
(* corr_uvw and cfl_max are called by the sources at hand but defined      *)
(* elsewhere; they are modelled from their description.  The transport     *)
(* solvers write one of a bounded set of fields.                           *)
(***************************************************************************)
EXTENDS Integers, FiniteSets, Sequences

\* ------------------------------------------------------------------ bounds
NX == 2
NY == 2
NZ == 2
MaxTs == 3
MaxIter == 2
MaxSites == 5

Scale == NX * NY * NZ

Cells == (1..NX) \X (1..NY) \X (1..NZ)
XFaces == (1..(NX-1)) \X (1..NY) \X (1..NZ)
YFaces == (1..NX) \X (1..(NY-1)) \X (1..NZ)
ZFaces == (1..NX) \X (1..NY) \X (1..(NZ-1))
SlabX == (1..NY) \X (1..NZ)
SlabY == (1..NX) \X (1..NZ)
SlabZ == (1..NX) \X (1..NY)

Drivers == {"cavity", "obstacles", "plumes"}

\* ------------------------------------------------------- array primitives
zeros(S) == [c \in S |-> 0]

Abs(a) == IF a < 0 THEN -a ELSE a

\* the cells in row-major order, to sum and to maximise over
CellAt(n) == << ((n - 1) % NX) + 1, (((n - 1) \div NX) % NY) + 1,
                ((n - 1) \div (NX * NY)) + 1 >>
CellSeq == [n \in 1..Scale |-> CellAt(n)]

RECURSIVE SumTo(_, _)
SumTo(f, n) == IF n = 0 THEN 0 ELSE f[CellSeq[n]] + SumTo(f, n - 1)
sum(f) == SumTo(f, Scale)

RECURSIVE MaxAbsTo(_, _)
MaxAbsTo(f, n) ==
  IF n = 0 THEN 0
  ELSE LET m == MaxAbsTo(f, n - 1)
           a == Abs(f[CellSeq[n]])
       IN IF a > m THEN a ELSE m
absmax(f) == MaxAbsTo(f, Scale)

any(a) == \E c \in DOMAIN a : a[c] # 0

\* cat(X, (bnd[W].val, val, bnd[E].val)): the face array padded with its
\* two boundary slabs, indexed 0..NX along the axis
catX(f) == [c \in (0..NX) \X (1..NY) \X (1..NZ) |->
              IF c[1] = 0 THEN f.bnd.W.val[<<c[2], c[3]>>]
              ELSE IF c[1] = NX THEN f.bnd.E.val[<<c[2], c[3]>>]
              ELSE f.val[c]]
catY(f) == [c \in (1..NX) \X (0..NY) \X (1..NZ) |->
              IF c[2] = 0 THEN f.bnd.S.val[<<c[1], c[3]>>]
              ELSE IF c[2] = NY THEN f.bnd.N.val[<<c[1], c[3]>>]
              ELSE f.val[c]]
catZ(f) == [c \in (1..NX) \X (1..NY) \X (0..NZ) |->
              IF c[3] = 0 THEN f.bnd.B.val[<<c[1], c[2]>>]
              ELSE IF c[3] = NZ THEN f.bnd.T.val[<<c[1], c[2]>>]
              ELSE f.val[c]]

\* the cell on the high side of an interior face, per axis
East(c) == <<c[1] + 1, c[2], c[3]>>
North(c) == <<c[1], c[2] + 1, c[3]>>
Top(c) == <<c[1], c[2], c[3] + 1>>
West(c) == <<c[1] - 1, c[2], c[3]>>
South(c) == <<c[1], c[2] - 1, c[3]>>
Bottom(c) == <<c[1], c[2], c[3] - 1>>

\* --------------------------------------------------------- discretization
\* obst_zero_val(pos, val, obst): val with the entries inside the obstacle
\* forced to zero; a face is inside when either of its two cells is solid
obst_zero_val_C(val, obst) ==
  [c \in Cells |-> IF obst[c] # 0 THEN 0 ELSE val[c]]
obst_zero_val_X(val, obst) ==
  [f \in XFaces |-> IF obst[f] # 0 \/ obst[East(f)] # 0 THEN 0 ELSE val[f]]
obst_zero_val_Y(val, obst) ==
  [f \in YFaces |-> IF obst[f] # 0 \/ obst[North(f)] # 0 THEN 0 ELSE val[f]]
obst_zero_val_Z(val, obst) ==
  [f \in ZFaces |-> IF obst[f] # 0 \/ obst[Top(f)] # 0 THEN 0 ELSE val[f]]

\* vol_balance(uvwf, dxyz, obst): minus the net outflow of every cell
\* through its six faces (unit face areas), zeroed inside the mask when a
\* mask with a nonzero entry is sent
vol_balance(uvwf, mask) ==
  LET cx == catX(uvwf[1])
      cy == catY(uvwf[2])
      cz == catZ(uvwf[3])
      src == [c \in Cells |-> - (cx[c] - cx[West(c)])
                              - (cy[c] - cy[South(c)])
                              - (cz[c] - cz[Bottom(c)])]
  IN IF any(mask) THEN obst_zero_val_C(src, mask) ELSE src

\* create_matrix(p, zeros(rc), dt/rho, dxyz, obst, 'n') for an all-Neumann
\* unknown: the operator A_p applied to a vector x, and the right-hand side.
\* A fluid cell's row has -1 for every fluid neighbour and their count on the
\* diagonal (boundary faces and faces to solid cells carry no flux); a solid
\* cell's row is the identity.  The right-hand side is the (zero) source.
Flux(x, obst, c, n) ==
  IF n \in Cells /\ obst[n] = 0 THEN x[c] - x[n] ELSE 0
A_p(x, obst) ==
  [c \in Cells |->
     IF obst[c] # 0 THEN x[c]
     ELSE Flux(x, obst, c, West(c)) + Flux(x, obst, c, East(c))
        + Flux(x, obst, c, South(c)) + Flux(x, obst, c, North(c))
        + Flux(x, obst, c, Bottom(c)) + Flux(x, obst, c, Top(c))]
create_matrix_b(src) == src

\* adj_n_bnds(phi): copy the adjacent interior value into every boundary
\* cell whose type is NEUMANN (in place: the drivers call it for its effect)
AdjSide(side, adjacent) ==
  [s \in DOMAIN side.val |->
     IF side.typ[s] = "NEUMANN" THEN adjacent[s] ELSE side.val[s]]
adj_n_bnds(phi) ==
  [phi EXCEPT
     !.bnd.W.val = AdjSide(phi.bnd.W, [s \in SlabX |-> phi.val[<<1, s[1], s[2]>>]]),
     !.bnd.E.val = AdjSide(phi.bnd.E, [s \in SlabX |-> phi.val[<<NX, s[1], s[2]>>]]),
     !.bnd.S.val = AdjSide(phi.bnd.S, [s \in SlabY |-> phi.val[<<s[1], 1, s[2]>>]]),
     !.bnd.N.val = AdjSide(phi.bnd.N, [s \in SlabY |-> phi.val[<<s[1], NY, s[2]>>]]),
     !.bnd.B.val = AdjSide(phi.bnd.B, [s \in SlabZ |-> phi.val[<<s[1], s[2], 1>>]]),
     !.bnd.T.val = AdjSide(phi.bnd.T, [s \in SlabZ |-> phi.val[<<s[1], s[2], NZ>>]])]

\* pressure gradients on the interior faces, zeroed inside the obstacle
p_x(pv, obst) ==
  LET g == [f \in XFaces |-> pv[East(f)] - pv[f]]
  IN IF any(obst) THEN obst_zero_val_X(g, obst) ELSE g
p_y(pv, obst) ==
  LET g == [f \in YFaces |-> pv[North(f)] - pv[f]]
  IN IF any(obst) THEN obst_zero_val_Y(g, obst) ELSE g
p_z(pv, obst) ==
  LET g == [f \in ZFaces |-> pv[Top(f)] - pv[f]]
  IN IF any(obst) THEN obst_zero_val_Z(g, obst) ELSE g

\* corr_uvw on the face velocities: subtract the face pressure gradient
corr_uvw_f(uvwf, pv, obst) ==
  LET gx == p_x(pv, obst)
      gy == p_y(pv, obst)
      gz == p_z(pv, obst)
  IN << [uvwf[1] EXCEPT !.val = [f \in XFaces |-> @[f] - gx[f]]],
        [uvwf[2] EXCEPT !.val = [f \in YFaces |-> @[f] - gy[f]]],
        [uvwf[3] EXCEPT !.val = [f \in ZFaces |-> @[f] - gz[f]]] >>

\* corr_uvw on the cell-centred velocities: the face gradients are padded by
\* repeating the first and the last one and averaged to the cell centres
\* (twice the average is subtracted from the doubled stored value)
Clamp(i, n) == IF i < 1 THEN 1 ELSE IF i > n - 1 THEN n - 1 ELSE i
corr_uvw_c(uvwc, pv, obst) ==
  LET gx == p_x(pv, obst)
      gy == p_y(pv, obst)
      gz == p_z(pv, obst)
  IN << [uvwc[1] EXCEPT !.val = [c \in Cells |-> @[c]
           - gx[<<Clamp(c[1] - 1, NX), c[2], c[3]>>]
           - gx[<<Clamp(c[1], NX), c[2], c[3]>>]]],
        [uvwc[2] EXCEPT !.val = [c \in Cells |-> @[c]
           - gy[<<c[1], Clamp(c[2] - 1, NY), c[3]>>]
           - gy[<<c[1], Clamp(c[2], NY), c[3]>>]]],
        [uvwc[3] EXCEPT !.val = [c \in Cells |-> @[c]
           - gz[<<c[1], c[2], Clamp(c[3] - 1, NZ)>>]
           - gz[<<c[1], c[2], Clamp(c[3], NZ)>>]]] >>

\* cfl_max(uvw, dt, dxyz): the largest cell velocity magnitude times dt/dx
cfl_max(uvwc) ==
  LET m(u) == absmax(u.val)
      a == m(uvwc[1])
      b == m(uvwc[2])
      c == m(uvwc[3])
  IN IF a >= b /\ a >= c THEN a ELSE IF b >= c THEN b ELSE c

\* ------------------------------------------------------------------ calc_p
\* calc_p, lines 21-26: the right-hand side handed to the solver.  The one
\* returned by create_matrix is replaced by the volume balance of the face
\* velocities, computed with an all-zero mask.
calc_p_rhs_masked(uvwf, obst) == vol_balance(uvwf, obst)
calc_p_rhs_kept(uvwf, obst) == create_matrix_b(zeros(Cells))
calc_p_rhs(uvwf, obst) ==
  LET b_0 == create_matrix_b(zeros(Cells))
      b_1 == vol_balance(uvwf, zeros(Cells))
  IN b_1

\* bicgstab(A_p, b_p, tol=TOL): every result the solver may return among the
\* candidate iterates X (real values).  res[0] is the iterate, res[1] is 0
\* when the iterate solves the system and the iteration count at the cut-off
\* otherwise; iters is the number of iterations the solver made.
bicgstab(obst, b, X) ==
  UNION {LET xs == [c \in Cells |-> Scale * x[c]]
         IN IF A_p(xs, obst) = b
              THEN {[x |-> xs, info |-> 0, iters |-> k] : k \in 1..MaxIter}
              ELSE {[x |-> xs, info |-> MaxIter, iters |-> MaxIter]} : x \in X}

\* line 40: p.val[:] = p.val[:] - p.val.mean()
anchor_none(val) == val
anchor_pinned(val) == [c \in Cells |-> val[c] - val[<<1, 1, 1>>]]
anchor(val) ==
  LET mean == sum(val) \div Scale
  IN [c \in Cells |-> val[c] - mean]

\* lines 44-45: if obst.any() != 0: p.val[:] = obst_zero_val(p.pos, p.val, obst)
zero_in_obst_all(val, obst) ==
  IF \A c \in Cells : obst[c] # 0 THEN obst_zero_val_C(val, obst) ELSE val
zero_in_obst(val, obst) ==
  IF any(obst) THEN obst_zero_val_C(val, obst) ELSE val

\* calc_p, lines 33-48: write the iterate back, anchor it to zero mean, zero
\* it inside the obstacle, close the Neumann boundaries
calc_p_post_closed_first(p, r, obst) ==
  LET closed == adj_n_bnds([p EXCEPT !.val = anchor(r.x)])
  IN [closed EXCEPT !.val = zero_in_obst(closed.val, obst)]
calc_p_post_strict(p, r, obst) ==
  IF r.info # 0 THEN p
  ELSE adj_n_bnds([p EXCEPT !.val = zero_in_obst(anchor(r.x), obst)])
calc_p_post(p, r, obst) ==
  LET solved == r.x
      anchored == anchor(solved)
      masked == zero_in_obst(anchored, obst)
  IN adj_n_bnds([p EXCEPT !.val = masked])

\* what calc_p prints (lines 28, 29, 35) and what it returns (line 50)
calc_p_out(b, r) ==
  [printed |-> <<absmax(b), sum(b), r.info>>,
   ret |-> "None"]

\* ------------------------------------------------------------------- state
VARIABLES
  driver,   \* which driver script runs
  ts,       \* the time step
  pc,       \* the phase of the time step about to run
  log,      \* the phases completed in the current time step, in order
  obst,     \* the obstacle mask
  t,        \* temperature: [val, old]
  uvwc,     \* cell-centred velocities (uc, vc, wc): [val, old] each
  uvwf,     \* face velocities (uf, vf, wf): [val, bnd] each
  p,        \* pressure: [val, bnd]
  p_tot,    \* the accumulated pressure of the cavity driver
  p_arg,    \* the pressure field passed to the last calc_uvw call
  p_log,    \* the p.val fields produced by calc_p in the steps so far
  vb_mask,  \* the mask passed to the last vol_balance call
  b_p,      \* the right-hand side handed to the solver by the last calc_p
  res,      \* what the solver returned to the last calc_p
  out,      \* what the last calc_p printed and returned
  err,      \* the diagnostic volume balance
  cfl,      \* the diagnostic CFL number
  plots     \* the fields plotted at the end of the last time step

vars == <<driver, ts, pc, log, obst, t, uvwc, uvwf, p, p_tot, p_arg, p_log,
          vb_mask, b_p, res, out, err, cfl, plots>>

\* create_unknown(name, pos, rc, kind): zero values, boundaries of the kind
CellUnknown == [val |-> zeros(Cells), old |-> zeros(Cells)]
Side(slab, kind) == [typ |-> [s \in slab |-> kind], val |-> zeros(slab)]
PressureUnknown ==
  [val |-> zeros(Cells),
   bnd |-> [W |-> Side(SlabX, "NEUMANN"), E |-> Side(SlabX, "NEUMANN"),
            S |-> Side(SlabY, "NEUMANN"), N |-> Side(SlabY, "NEUMANN"),
            B |-> Side(SlabZ, "NEUMANN"), T |-> Side(SlabZ, "NEUMANN")]]

\* the three face velocities with their normal boundary slabs
Faces(fx, fy, fz, qW, qE) ==
  << [val |-> fx, bnd |-> [W |-> [val |-> [s \in SlabX |-> qW]],
                           E |-> [val |-> [s \in SlabX |-> qE]]]],
     [val |-> fy, bnd |-> [S |-> [val |-> zeros(SlabY)],
                           N |-> [val |-> zeros(SlabY)]]],
     [val |-> fz, bnd |-> [B |-> [val |-> zeros(SlabZ)],
                           T |-> [val |-> zeros(SlabZ)]]] >>

\* ---------------------------------------------------------- bounded inputs
Unit(c, a) == [d \in Cells |-> IF d = c THEN a ELSE 0]
First == <<1, 1, 1>>
Last == <<NX, NY, NZ>>

\* the cells where the inputs below place a solid cell or a deviation
Sites == {CellSeq[n] : n \in 1..MaxSites}

\* obstacle masks: no solid cell, one solid cell, two solid cells adjacent
\* along x
Masks ==
  {zeros(Cells)} \cup {Unit(c, 1) : c \in Sites}
  \cup {[d \in Cells |-> IF d = c \/ d = East(c) THEN 1 ELSE 0] :
        c \in XFaces \cap Sites}

\* face velocity perturbations: nothing, the gradient of a one-cell
\* potential, one nonzero interior face
Perturbations(cells) ==
  {<<zeros(XFaces), zeros(YFaces), zeros(ZFaces)>>}
  \cup {<<[f \in XFaces |-> Scale * (Unit(c, a)[East(f)] - Unit(c, a)[f])],
          [f \in YFaces |-> Scale * (Unit(c, a)[North(f)] - Unit(c, a)[f])],
          [f \in ZFaces |-> Scale * (Unit(c, a)[Top(f)] - Unit(c, a)[f])]>> :
        c \in cells, a \in {-1, 1}}
  \cup {<<[f \in XFaces |-> IF f = g THEN 1 ELSE 0], zeros(YFaces), zeros(ZFaces)>> :
        g \in XFaces \cap cells}
  \cup {<<zeros(XFaces), [f \in YFaces |-> IF f = g THEN 1 ELSE 0], zeros(ZFaces)>> :
        g \in YFaces \cap cells}
  \cup {<<zeros(XFaces), zeros(YFaces), [f \in ZFaces |-> IF f = g THEN 1 ELSE 0]>> :
        g \in ZFaces \cap cells}

\* face velocity fields: a uniform x-flow entering with q[1] and leaving
\* with q[2], plus a perturbation
FaceFields(cells, flows) ==
  {Faces([f \in XFaces |-> q[1] + d[1][f]], d[2], d[3], q[1], q[2]) :
     d \in Perturbations(cells), q \in flows}

RichFaces == FaceFields(Sites, {<<0, 0>>, <<1, 1>>, <<1, 0>>})

\* the small input sets of the time loop
SmallMasks == {zeros(Cells), Unit(First, 1)}
SmallTransports ==
  {<<zeros(Cells), Faces(zeros(XFaces), zeros(YFaces), zeros(ZFaces), 0, 0)>>,
   <<Unit(Last, 1),
     Faces([f \in XFaces |-> Scale * (Unit(First, 1)[East(f)] - Unit(First, 1)[f])],
           [f \in YFaces |-> Scale * (Unit(First, 1)[North(f)] - Unit(First, 1)[f])],
           [f \in ZFaces |-> Scale * (Unit(First, 1)[Top(f)] - Unit(First, 1)[f])],
           0, 0)>>}
SmallIterates == {zeros(Cells), Unit(First, 1), Unit(Last, -1)}

\* candidate iterates of the solver (real values): a constant plus a one-cell
\* deviation
Iterates(cells, shifts) ==
  {[c \in Cells |-> s + Unit(d, a)[c]] :
     s \in shifts, d \in cells, a \in {-1, 0, 1}}
RichIterates == Iterates(Sites, {0, 1})

\* cell fields written by the transport solvers
CellFields == {zeros(Cells), Unit(Last, 1)}

\* -------------------------------------------------------------- the drivers
HasScalar(d) == d # "obstacles"
HasPTot(d) == d = "cavity"

\* the phase that follows phase ph in a time step of driver d
NextPhase_faces_first(d, ph) ==
  CASE ph = "store" -> IF HasScalar(d) THEN "calc_t" ELSE "calc_uvw"
    [] ph = "calc_t" -> "calc_uvw"
    [] ph = "calc_uvw" -> "calc_p"
    [] ph = "calc_p" -> IF HasPTot(d) THEN "p_tot" ELSE "corr_uvw_f"
    [] ph = "p_tot" -> "corr_uvw_f"
    [] ph = "corr_uvw_f" -> "corr_uvw_c"
    [] ph = "corr_uvw_c" -> "vol_balance"
    [] ph = "vol_balance" -> "cfl_max"
    [] ph = "cfl_max" -> "plot"
    [] OTHER -> "store"
NextPhase(d, ph) ==
  CASE ph = "store" -> IF HasScalar(d) THEN "calc_t" ELSE "calc_uvw"
    [] ph = "calc_t" -> "calc_uvw"
    [] ph = "calc_uvw" -> "calc_p"
    [] ph = "calc_p" -> IF HasPTot(d) THEN "p_tot" ELSE "corr_uvw_c"
    [] ph = "p_tot" -> "corr_uvw_c"
    [] ph = "corr_uvw_c" -> "corr_uvw_f"
    [] ph = "corr_uvw_f" -> "vol_balance"
    [] ph = "vol_balance" -> "cfl_max"
    [] ph = "cfl_max" -> "plot"
    [] OTHER -> "store"

\* the fields plotted by the plot_isolines calls at the end of time step n
PlotEveryCavity == 20
PlotEveryObstacles == 20
PlotEveryPlumes == 150
plot_isolines(d, n) ==
  CASE d = "cavity" -> IF n % PlotEveryCavity = 0 THEN <<"t">> ELSE <<>>
    [] d = "obstacles" -> IF n % PlotEveryObstacles = 0 THEN <<"p">> ELSE <<>>
    [] OTHER -> IF n % PlotEveryPlumes = 0 THEN <<"t", "p">> ELSE <<>>

\* the pressure argument of the calc_uvw call
calc_uvw_p(d, ptot) == IF HasPTot(d) THEN ptot ELSE zeros(Cells)

NoRes == [x |-> zeros(Cells), info |-> 0, iters |-> MaxIter]
NoOut == [printed |-> <<0, 0, 0>>, ret |-> "None"]

Init ==
  /\ driver \in Drivers
  /\ ts = 1
  /\ pc = "store"
  /\ log = <<>>
  /\ obst \in IF driver = "obstacles" THEN SmallMasks ELSE {zeros(Cells)}
  /\ t = CellUnknown
  /\ uvwc = <<CellUnknown, CellUnknown, CellUnknown>>
  /\ uvwf = Faces(zeros(XFaces), zeros(YFaces), zeros(ZFaces), 0, 0)
  /\ p = PressureUnknown
  /\ p_tot = zeros(Cells)
  /\ p_arg = zeros(Cells)
  /\ p_log = <<>>
  /\ vb_mask = zeros(Cells)
  /\ b_p = zeros(Cells)
  /\ res = NoRes
  /\ out = NoOut
  /\ err = zeros(Cells)
  /\ cfl = 0
  /\ plots = <<>>

\* one time step starting at the pressure phase, from any face velocity field
InitStep ==
  /\ driver = "obstacles"
  /\ ts = 1
  /\ pc = "calc_p"
  /\ log = <<"store", "calc_uvw">>
  /\ obst \in Masks
  /\ t = CellUnknown
  /\ uvwc = <<CellUnknown, CellUnknown, CellUnknown>>
  /\ uvwf \in RichFaces
  /\ p = PressureUnknown
  /\ p_tot = zeros(Cells)
  /\ p_arg = zeros(Cells)
  /\ p_log = <<>>
  /\ vb_mask = zeros(Cells)
  /\ b_p = zeros(Cells)
  /\ res = NoRes
  /\ out = NoOut
  /\ err = zeros(Cells)
  /\ cfl = 0
  /\ plots = <<>>

Advance(ph) ==
  /\ pc = ph
  /\ pc' = NextPhase(driver, ph)
  /\ log' = Append(log, ph)

\* print_time_step(ts) and "Store old values"
StoreOld ==
  /\ pc = "store"
  /\ pc' = NextPhase(driver, "store")
  /\ log' = <<"store">>
  /\ uvwc' = <<[uvwc[1] EXCEPT !.old = uvwc[1].val],
               [uvwc[2] EXCEPT !.old = uvwc[2].val],
               [uvwc[3] EXCEPT !.old = uvwc[3].val]>>
  /\ t' = IF HasScalar(driver) THEN [t EXCEPT !.old = t.val] ELSE t
  /\ UNCHANGED <<driver, ts, obst, uvwf, p, p_tot, p_arg, p_log, vb_mask,
                 b_p, res, out, err, cfl, plots>>

\* calc_t(t, (uf,vf,wf), rho*cap, kappa, dt, dxyz, obst): writes t.val
CalcT ==
  /\ Advance("calc_t")
  /\ \E f \in CellFields : t' = [t EXCEPT !.val = f]
  /\ UNCHANGED <<driver, ts, obst, uvwc, uvwf, p, p_tot, p_arg, p_log,
                 vb_mask, b_p, res, out, err, cfl, plots>>

\* calc_uvw((uc,vc,wc), (uf,vf,wf), rho, mu, p_tot, ef, dt, dxyz, obst):
\* writes the cell-centred and the face velocities (one of the given pairs
\* of a cell field for uc and a face velocity triple)
CalcUVW(transports) ==
  /\ Advance("calc_uvw")
  /\ p_arg' = calc_uvw_p(driver, p_tot)
  /\ \E tr \in transports :
       /\ uvwc' = <<[uvwc[1] EXCEPT !.val = tr[1]],
                    [uvwc[2] EXCEPT !.val = zeros(Cells)],
                    [uvwc[3] EXCEPT !.val = zeros(Cells)]>>
       /\ uvwf' = tr[2]
  /\ UNCHANGED <<driver, ts, obst, t, p, p_tot, p_log, vb_mask, b_p, res,
                 out, err, cfl, plots>>

\* calc_p(p, (uf,vf,wf), rho, dt, dxyz, obst)
CalcP(iterates) ==
  /\ Advance("calc_p")
  /\ b_p' = calc_p_rhs(uvwf, obst)
  /\ vb_mask' = zeros(Cells)
  /\ res' \in bicgstab(obst, b_p', iterates)
  /\ p' = calc_p_post(p, res', obst)
  /\ out' = calc_p_out(b_p', res')
  /\ p_log' = Append(p_log, p'.val)
  /\ UNCHANGED <<driver, ts, obst, t, uvwc, uvwf, p_tot, p_arg, err, cfl, plots>>

\* p_tot = p_tot + p.val
AccPTot ==
  /\ pc = "p_tot"
  /\ pc' = NextPhase(driver, "p_tot")
  /\ p_tot' = [c \in Cells |-> p_tot[c] + p.val[c]]
  /\ UNCHANGED <<driver, ts, log, obst, t, uvwc, uvwf, p, p_arg, p_log,
                 vb_mask, b_p, res, out, err, cfl, plots>>

\* corr_uvw((uc,vc,wc), p, rho, dt, dxyz, obst)
CorrUVWCell ==
  /\ Advance("corr_uvw_c")
  /\ uvwc' = corr_uvw_c(uvwc, p.val, obst)
  /\ UNCHANGED <<driver, ts, obst, t, uvwf, p, p_tot, p_arg, p_log, vb_mask,
                 b_p, res, out, err, cfl, plots>>

\* corr_uvw((uf,vf,wf), p, rho, dt, dxyz, obst)
CorrUVWFace ==
  /\ Advance("corr_uvw_f")
  /\ uvwf' = corr_uvw_f(uvwf, p.val, obst)
  /\ UNCHANGED <<driver, ts, obst, t, uvwc, p, p_tot, p_arg, p_log, vb_mask,
                 b_p, res, out, err, cfl, plots>>

\* err = vol_balance((uf,vf,wf), dxyz, obst)
VolBalance ==
  /\ Advance("vol_balance")
  /\ vb_mask' = obst
  /\ err' = vol_balance(uvwf, obst)
  /\ UNCHANGED <<driver, ts, obst, t, uvwc, uvwf, p, p_tot, p_arg, p_log,
                 b_p, res, out, cfl, plots>>

\* cfl = cfl_max((uc,vc,wc), dt, dxyz)
CflMax ==
  /\ Advance("cfl_max")
  /\ cfl' = cfl_max(uvwc)
  /\ UNCHANGED <<driver, ts, obst, t, uvwc, uvwf, p, p_tot, p_arg, p_log,
                 vb_mask, b_p, res, out, err, plots>>

\* the periodic plot_isolines calls (they change no field; show_plot has its
\* default, True), then the next iteration of "for ts in range(1, ndt+1)"
Visualise ==
  /\ pc = "plot"
  /\ log' = Append(log, "plot")
  /\ plots' = plot_isolines(driver, ts)
  /\ IF ts < MaxTs
       THEN ts' = ts + 1 /\ pc' = NextPhase(driver, "plot")
       ELSE ts' = ts /\ pc' = "done"
  /\ UNCHANGED <<driver, obst, t, uvwc, uvwf, p, p_tot, p_arg, p_log,
                 vb_mask, b_p, res, out, err, cfl>>

Next ==
  \/ StoreOld
  \/ CalcT
  \/ CalcUVW(SmallTransports)
  \/ CalcP(SmallIterates)
  \/ AccPTot
  \/ CorrUVWCell
  \/ CorrUVWFace
  \/ VolBalance
  \/ CflMax
  \/ Visualise

Spec == Init /\ [][Next]_vars

NextStep ==
  \/ CalcP(RichIterates)
  \/ CorrUVWCell
  \/ CorrUVWFace
  \/ VolBalance

SpecStep == InitStep /\ [][NextStep]_vars

\* ------------------------------------------------------------- properties
\* calc_p has returned at least once; p, b_p, res and out are those of the
\* last call
AfterCalcP == p_log # <<>>

\* between the return of calc_p and the correction of the face velocities
JustAfterCalcP == pc \in {"p_tot", "corr_uvw_c", "corr_uvw_f"}

AllNeumann ==
  \A d \in DOMAIN p.bnd : \A s \in DOMAIN p.bnd[d].typ : p.bnd[d].typ[s] = "NEUMANN"

\* the values the anchoring leaves in the cells, from the solver's iterate
Anchored ==
  LET mean == sum(res.x) \div Scale
  IN [c \in Cells |-> res.x[c] - mean]

\* every boundary slab value equals the adjacent interior value
BoundariesClosed ==
  /\ \A s \in SlabX : /\ p.bnd.W.val[s] = p.val[<<1, s[1], s[2]>>]
                      /\ p.bnd.E.val[s] = p.val[<<NX, s[1], s[2]>>]
  /\ \A s \in SlabY : /\ p.bnd.S.val[s] = p.val[<<s[1], 1, s[2]>>]
                      /\ p.bnd.N.val[s] = p.val[<<s[1], NY, s[2]>>]
  /\ \A s \in SlabZ : /\ p.bnd.B.val[s] = p.val[<<s[1], s[2], 1>>]
                      /\ p.bnd.T.val[s] = p.val[<<s[1], s[2], NZ>>]

OnBoundary(c) ==
  c[1] \in {1, NX} \/ c[2] \in {1, NY} \/ c[3] \in {1, NZ}

\* C1: after calc_p returns, every cell whose obstacle-mask entry is nonzero
\* has pressure exactly 0, whatever the solver returned.
C1_ObstacleZero ==
  AfterCalcP => \A c \in Cells : obst[c] # 0 => p.val[c] = 0

\* a solid cell whose anchored value was nonzero, after a solve that did not
\* converge
C1_Witness ==
  /\ AfterCalcP
  /\ res.info # 0
  /\ LET a == Anchored
     IN \E c \in Cells : obst[c] # 0 /\ a[c] # 0 /\ p.val[c] = 0

\* C2: after calc_p on an all-Neumann pressure field every boundary slab
\* value equals the adjacent interior value as it stands on return, also
\* where a solid cell touches the boundary.
C2_NeumannClosure ==
  (AfterCalcP /\ AllNeumann) => BoundariesClosed

\* a solid cell on the boundary whose anchored value was nonzero: the slab
\* holds the zeroed value
C2_Witness ==
  /\ AfterCalcP
  /\ AllNeumann
  /\ LET a == Anchored
     IN \E c \in Cells : obst[c] # 0 /\ OnBoundary(c) /\ a[c] # 0
  /\ \E c \in Cells : p.val[c] # 0
  /\ BoundariesClosed

C4_ZeroSource ==
  ( /\ JustAfterCalcP
    /\ AllNeumann
    /\ ~ any(obst)
    /\ vol_balance(uvwf, zeros(Cells)) = zeros(Cells)
    /\ res.info = 0 )
  => /\ p.val = zeros(Cells)
     /\ \A d \in DOMAIN p.bnd : \A s \in DOMAIN p.bnd[d].val : p.bnd[d].val[s] = 0

\* a divergence-free through-flow for which the solver returned a nonzero
\* constant
C4_Witness ==
  /\ JustAfterCalcP
  /\ ~ any(obst)
  /\ vol_balance(uvwf, zeros(Cells)) = zeros(Cells)
  /\ uvwf[1].bnd.W.val[<<1, 1>>] # 0
  /\ res.info = 0
  /\ res.x[First] # 0
  /\ p.val = zeros(Cells)

\* C5: when the solver does not converge calc_p does not abort: the last
\* iterate is written to the pressure field, anchored, zeroed inside the
\* obstacle, the boundaries are closed, and the driver goes on (the call
\* has returned: the loop waits at calc_p only for a later time step).
C5_NonConvergenceContinues ==
  (AfterCalcP /\ res.info # 0) =>
     /\ LET a == Anchored
        IN \A c \in Cells : p.val[c] = IF obst[c] # 0 THEN 0 ELSE a[c]
     /\ BoundariesClosed
     /\ pc = "calc_p" => Len(p_log) < ts

\* the diagnostics of a step whose solve did not converge, with the iterate
\* in the pressure field
C5_Witness ==
  /\ pc = "cfl_max"
  /\ res.info # 0
  /\ LET a == Anchored
     IN \E c \in Cells : p.val[c] # 0 /\ p.val[c] = a[c]

\* C6: on every call calc_p returns or reports to its caller the achieved
\* residual and the iteration count of the solve.
C6_ResidualAndIterationsReported ==
  AfterCalcP =>
    LET residual == absmax([c \in Cells |-> b_p[c] - A_p(res.x, obst)[c]])
        returned == IF out.ret = "None" THEN {} ELSE {out.ret}
        reported == {out.printed[i] : i \in DOMAIN out.printed} \cup returned
    IN residual \in reported /\ res.iters \in reported

\* the phases of a time step of driver d, in order
Phases(d) ==
  IF HasScalar(d)
    THEN <<"store", "calc_t", "calc_uvw", "calc_p", "corr_uvw_c", "corr_uvw_f",
           "vol_balance", "cfl_max", "plot">>
    ELSE <<"store", "calc_uvw", "calc_p", "corr_uvw_c", "corr_uvw_f",
           "vol_balance", "cfl_max", "plot">>

IsPrefix(a, b) == Len(a) <= Len(b) /\ a = SubSeq(b, 1, Len(a))

\* C7 as stated: in every time step, of every driver, the phases store,
\* calc_t, calc_uvw, calc_p, corr_uvw (cells), corr_uvw (faces), vol_balance,
\* cfl_max, plot run once each, in this order.
C7_AllPhasesEveryDriver ==
  /\ IsPrefix(log, Phases("cavity"))
  /\ (pc \in {"store", "done"} /\ log # <<>>) => log = Phases("cavity")

\* C7 amended: the phases run once each and in this order in every time
\* step, calc_t only in the drivers that transport a scalar (the obstacles
\* driver has none); a step starts only when the previous one is complete.
C7_PhaseOrder ==
  /\ IsPrefix(log, Phases(driver))
  /\ (pc \in {"store", "done"} /\ log # <<>>) => log = Phases(driver)
  /\ (pc \notin {"store", "done", "p_tot"} /\ log # <<>>) =>
        IsPrefix(Append(log, pc), Phases(driver))
  /\ pc = "p_tot" => log[Len(log)] = "calc_p"

\* the obstacles driver has completed a time step without a calc_t phase
\* and is about to start the next one
C7_Witness ==
  /\ pc = "store"
  /\ ts = 2
  /\ driver = "obstacles"
  /\ log = Phases(driver)
  /\ Len(log) < Len(Phases("cavity"))

RECURSIVE FieldSum(_)
FieldSum(fs) ==
  IF fs = <<>> THEN zeros(Cells)
  ELSE [c \in Cells |-> fs[1][c] + FieldSum(Tail(fs))[c]]

\* C8: at time step n the pressure passed to calc_uvw is the cell-wise sum
\* of the pressure fields produced by calc_p in steps 1..n-1, in every
\* driver.
C8_AccumulatedPressure ==
  (pc \in {"calc_p", "p_tot", "corr_uvw_c", "corr_uvw_f", "vol_balance",
           "cfl_max", "plot"})
  => p_arg = FieldSum(SubSeq(p_log, 1, ts - 1))

\* C9: the vol_balance call inside calc_p is given an all-zero mask whatever
\* obst is: the right-hand side is the volume balance of the current face
\* velocities in every cell, solid cells included, not the one create_matrix
\* returned; the diagnostic call is given obst.
C9_MaskAtTheTwoCallSites ==
  /\ JustAfterCalcP =>
       /\ vb_mask = zeros(Cells)
       /\ b_p = vol_balance(uvwf, zeros(Cells))
  /\ pc = "cfl_max" =>
       /\ vb_mask = obst
       /\ err = vol_balance(uvwf, obst)
       /\ \A c \in Cells : obst[c] # 0 => err[c] = 0

\* a solid cell with a nonzero entry in the right-hand side
C9_Witness ==
  /\ JustAfterCalcP
  /\ \E c \in Cells : obst[c] # 0 /\ b_p[c] # 0

\* C10: with an all-zero mask the interior pressure values sum to zero on
\* return from calc_p, for every solver result.
C10_ZeroMean ==
  (AfterCalcP /\ ~ any(obst)) => sum(p.val) = 0

\* a non-converged iterate of nonzero mean, anchored
C10_Witness ==
  /\ AfterCalcP
  /\ ~ any(obst)
  /\ res.info # 0
  /\ sum(res.x) # 0
  /\ \E c \in Cells : p.val[c] # 0
  /\ sum(p.val) = 0

====
